---- MODULE Spec2Model ----
(***************************************************************************)
(* Model of federatedrec/param/matrix_factorization_param.py:              *)
(* MatrixFactorizationParam / HeteroMatrixParam, their three normalizers,  *)
(* check(), generate_pb() and restore_from_pb().                           *)
(*                                                                         *)
(* Python values are tagged records; the tag t is type(v).__name__ and     *)
(* each type keeps its payload under a field of its own, so values of      *)
(* different types are comparable and never equal.  A float is counted in  *)
(* units of 1e-4 (0.0001 is float(1), 0.01 is float(100)).                 *)
(***************************************************************************)
EXTENDS Integers, Sequences, FiniteSets, TLC

VARIABLES
    self,    \* the parameter object the calls are made on
    prev,    \* the object as it was when the last call began
    passed,  \* TRUE once a check() on this object has returned True
    pb,      \* the protobuf record last produced by generate_pb(), or NoPb
    src,     \* the object (and its passed flag) that produced pb
    ret,     \* outcome of the last call
    arg,     \* argument handed to a normalizer called on its own
    out      \* what that normalizer call returned or raised

vars == <<self, prev, passed, pb, src, ret, arg, out>>

----------------------------------------------------------------------------
(* Python values *)

None == [t |-> "NoneType"]
str(s) == [t |-> "str", s |-> s]
int(i) == [t |-> "int", i |-> i]
float(f) == [t |-> "float", f |-> f]
bool(b) == [t |-> "bool", b |-> b]
dict(d) == [t |-> "dict", d |-> d]
list(l) == [t |-> "list", l |-> l]
tuple(l) == [t |-> "tuple", l |-> l]
SimpleNamespace(r) == [t |-> "SimpleNamespace", ns |-> r]

EmptyDict == dict([k \in {} |-> None])

isinstance(v, types) == v.t \in types

\* isinstance(v, (int, float)): bool is a subclass of int
IsIntOrFloat(v) == v.t \in {"int", "float", "bool"}

\* the number a numeric value stands for, in units of 1e-4
Num(v) ==
    CASE v.t = "int" -> v.i * 10000
      [] v.t = "float" -> v.f
      [] v.t = "bool" -> IF v.b THEN 10000 ELSE 0

\* Python ==
PyEq(a, b) == IF IsIntOrFloat(a) /\ IsIntOrFloat(b) THEN Num(a) = Num(b) ELSE a = b

\* Python truth value testing: `not v`
Not(v) ==
    CASE v.t = "NoneType" -> TRUE
      [] v.t = "str" -> v.s = ""
      [] v.t \in {"int", "float", "bool"} -> Num(v) = 0
      [] v.t = "dict" -> DOMAIN v.d = {}
      [] v.t \in {"list", "tuple"} -> Len(v.l) = 0
      [] OTHER -> FALSE

\* dict.get(key, default)
get(param, key, default) == IF key \in DOMAIN param.d THEN param.d[key] ELSE default

\* outcome of a call: a returned value, or a raised exception
Return(v) == [ok |-> TRUE, val |-> v]
Raise(e, where) == [ok |-> FALSE, exc |-> e, at |-> where]

----------------------------------------------------------------------------
(* The three normalizers *)

default_eps == float(1)

_parse_early_stop_drop_eps(param) ==
    IF isinstance(param, {"str"})
    THEN Return(SimpleNamespace([converge_func |-> param, eps |-> default_eps]))
    ELSE IF isinstance(param, {"dict"})
    THEN LET early_stop == get(param, "early_stop", None)
         IN  IF Not(early_stop)
             THEN Raise("ValueError", "early_stop")
             ELSE Return(SimpleNamespace([converge_func |-> early_stop, eps |-> default_eps]))
    ELSE Raise("ValueError", "early_stop")

_parse_early_stop(param) ==
    IF isinstance(param, {"str"})
    THEN Return(SimpleNamespace([converge_func |-> param, eps |-> default_eps]))
    ELSE IF isinstance(param, {"dict"})
    THEN LET early_stop == get(param, "early_stop", None)
             eps == get(param, "eps", default_eps)
         IN  IF Not(early_stop)
             THEN Raise("ValueError", "early_stop")
             ELSE Return(SimpleNamespace([converge_func |-> early_stop, eps |-> eps]))
    ELSE Raise("ValueError", "early_stop")

_parse_optimizer_keep_name(param) ==
    IF isinstance(param, {"str"})
    THEN Return(SimpleNamespace([optimizer |-> param, kwargs |-> EmptyDict]))
    ELSE IF isinstance(param, {"dict"})
    THEN LET optimizer == get(param, "optimizer", EmptyDict)
         IN  IF Not(optimizer)
             THEN Raise("ValueError", "optimizer")
             ELSE Return(SimpleNamespace([optimizer |-> optimizer, kwargs |-> param]))
    ELSE Raise("ValueError", "optimizer")

_parse_optimizer(param) ==
    IF isinstance(param, {"str"})
    THEN Return(SimpleNamespace([optimizer |-> param, kwargs |-> EmptyDict]))
    ELSE IF isinstance(param, {"dict"})
    THEN LET optimizer == get(param, "optimizer", EmptyDict)
             kwargs == dict([k \in DOMAIN param.d \ {"optimizer"} |-> param.d[k]])
         IN  IF Not(optimizer)
             THEN Raise("ValueError", "optimizer")
             ELSE Return(SimpleNamespace([optimizer |-> optimizer, kwargs |-> kwargs]))
    ELSE Raise("ValueError", "optimizer")

_parse_metrics_str_as_is(param) ==
    IF Not(param) THEN Return(list(<<>>))
    ELSE IF isinstance(param, {"str", "list"}) THEN Return(param)
    ELSE Raise("ValueError", "metrics")

_parse_metrics(param) ==
    IF Not(param) THEN Return(list(<<>>))
    ELSE IF isinstance(param, {"str"}) THEN Return(list(<<param>>))
    ELSE IF isinstance(param, {"list"}) THEN Return(param)
    ELSE Raise("ValueError", "metrics")

----------------------------------------------------------------------------
(* Construction *)

MIN_BATCH_SIZE == 10

InitMethods == {"random_uniform", "random_normal", "ones", "zeros", "const"}

MtxFInitParam(embed_dim, init_method) ==
    [embed_dim |-> embed_dim, init_method |-> init_method]

MatrixFactorizationParam(early_stop, optimizer, batch_size, init_param, max_iter, metrics) ==
    [cls |-> "MatrixFactorizationParam",
     secure_aggregate |-> bool(TRUE),
     aggregate_every_n_epoch |-> int(1),
     early_stop |-> early_stop,
     metrics |-> metrics,
     loss |-> str("mse"),
     optimizer |-> optimizer,
     batch_size |-> batch_size,
     init_param |-> init_param,
     max_iter |-> max_iter,
     predict_param |-> "PredictParam()",
     cv_param |-> "CrossValidationParam()",
     validation_freqs |-> None]

HeteroMatrixParam(optimizer, batch_size, init_param, max_iter, early_stop, aggregate_iters) ==
    [k \in DOMAIN MatrixFactorizationParam(early_stop, optimizer, batch_size,
                                           init_param, max_iter, None)
             \cup {"aggregate_iters"} |->
        CASE k = "cls" -> "HeteroMatrixParam"
          [] k = "aggregate_iters" -> aggregate_iters
          [] OTHER -> MatrixFactorizationParam(early_stop, optimizer, batch_size,
                                               init_param, max_iter, None)[k]]

----------------------------------------------------------------------------
(* check() *)

\* the outcome of a method call: the object as the call leaves it, and
\* what the call returned or raised
Outcome(o, r) == [obj |-> o, ret |-> r]

BatchSizeOk_off_by_one(batch_size) ==
    \/ PyEq(batch_size, int(-1))
    \/ ~ (\/ batch_size.t \notin {"int"}
          \/ Num(batch_size) <= Num(int(MIN_BATCH_SIZE)))

\* lines 112-114: the condition under which no ValueError is raised
BatchSizeOk(batch_size) ==
    \/ PyEq(batch_size, int(-1))
    \/ ~ (\/ batch_size.t \notin {"int"}
          \/ Num(batch_size) < Num(int(MIN_BATCH_SIZE)))

KwargOk_reject_zero(kwargs, key) ==
    \/ key \notin DOMAIN kwargs.d
    \/ ~ (\/ ~ IsIntOrFloat(kwargs.d[key])
          \/ (IsIntOrFloat(kwargs.d[key]) /\ Num(kwargs.d[key]) <= 0))

\* lines 118-121 and 127-130, for key 'decay' and key 'learning_rate'
KwargOk(kwargs, key) ==
    \/ key \notin DOMAIN kwargs.d
    \/ ~ (\/ ~ IsIntOrFloat(kwargs.d[key])
          \/ (IsIntOrFloat(kwargs.d[key]) /\ Num(kwargs.d[key]) < 0))

\* InitParam.check() of the initialization sub-object
InitParam_check(init_param) ==
    IF init_param.init_method \in InitMethods
    THEN Return(bool(TRUE))
    ELSE Raise("ValueError", "init_param")

MaxIterOk_allow_zero(max_iter) ==
    IF max_iter.t # "int" THEN FALSE
    ELSE IF Num(max_iter) < 0 THEN FALSE
    ELSE TRUE

\* lines 138-143
MaxIterOk(max_iter) ==
    IF max_iter.t # "int" THEN FALSE
    ELSE IF Num(max_iter) <= 0 THEN FALSE
    ELSE TRUE

\* lines 112-145, once the three normalizers have run
check_rest(o) ==
    IF ~ BatchSizeOk(o.batch_size)
    THEN Outcome(o, Raise("ValueError", "batch_size"))
    ELSE IF ~ KwargOk(o.optimizer.ns.kwargs, "decay")
    THEN Outcome(o, Raise("ValueError", "decay"))
    ELSE IF ~ KwargOk(o.optimizer.ns.kwargs, "learning_rate")
    THEN Outcome(o, Raise("ValueError", "learning_rate"))
    ELSE IF ~ InitParam_check(o.init_param).ok
    THEN Outcome(o, InitParam_check(o.init_param))
    ELSE IF ~ MaxIterOk(o.max_iter)
    THEN Outcome(o, Raise("ValueError", "max_iter"))
    ELSE Outcome(o, Return(bool(TRUE)))

MatrixFactorizationParam_check_rollback(o) ==
    LET r1 == _parse_early_stop(o.early_stop)
        o1 == [o EXCEPT !.early_stop = r1.val]
        r2 == _parse_optimizer(o1.optimizer)
        o2 == [o1 EXCEPT !.optimizer = r2.val]
        r3 == _parse_metrics(o2.metrics)
        o3 == [o2 EXCEPT !.metrics = r3.val]
    IN  IF ~ r1.ok THEN Outcome(o, r1)
        ELSE IF ~ r2.ok THEN Outcome(o, r2)
        ELSE IF ~ r3.ok THEN Outcome(o, r3)
        ELSE IF check_rest(o3).ret.ok THEN check_rest(o3)
        ELSE Outcome(o, check_rest(o3).ret)

MatrixFactorizationParam_check(o) ==
    LET r1 == _parse_early_stop(o.early_stop)
        o1 == [o EXCEPT !.early_stop = r1.val]
        r2 == _parse_optimizer(o1.optimizer)
        o2 == [o1 EXCEPT !.optimizer = r2.val]
        r3 == _parse_metrics(o2.metrics)
        o3 == [o2 EXCEPT !.metrics = r3.val]
    IN  IF ~ r1.ok THEN Outcome(o, r1)
        ELSE IF ~ r2.ok THEN Outcome(o1, r2)
        ELSE IF ~ r3.ok THEN Outcome(o2, r3)
        ELSE check_rest(o3)

HeteroMatrixParam_check(o) ==
    LET c == MatrixFactorizationParam_check(o)
    IN  IF ~ c.ret.ok THEN c
        ELSE IF ~ isinstance(c.obj.aggregate_iters, {"int", "bool"})
        THEN Outcome(c.obj, Raise("ValueError", "aggregate_iters"))
        ELSE Outcome(c.obj, Return(bool(TRUE)))

\* method resolution: the most derived check() of the object's class
check(o) ==
    IF o.cls = "HeteroMatrixParam"
    THEN HeteroMatrixParam_check(o)
    ELSE MatrixFactorizationParam_check(o)

----------------------------------------------------------------------------
(* json.dumps / json.loads on the optimizer's keyword arguments.  The text *)
(* is kept as its syntax tree: a literal records which JSON production it  *)
(* is, and nothing of the Python type it was written from.                 *)

RECURSIVE serializable(_)
serializable(v) ==
    CASE v.t \in {"NoneType", "str", "int", "float", "bool"} -> TRUE
      [] v.t \in {"list", "tuple"} -> \A i \in 1..Len(v.l) : serializable(v.l[i])
      [] v.t = "dict" -> \A k \in DOMAIN v.d : serializable(v.d[k])
      [] OTHER -> FALSE

RECURSIVE encode(_)
encode(v) ==
    CASE v.t = "NoneType" -> [j |-> "null"]
      [] v.t = "bool" -> [j |-> IF v.b THEN "true" ELSE "false"]
      [] v.t = "str" -> [j |-> "string", chars |-> v.s]
      [] v.t = "int" -> [j |-> "integer", digits |-> v.i]
      [] v.t = "float" -> [j |-> "real", digits |-> v.f]
      [] v.t \in {"list", "tuple"} ->
            [j |-> "array", items |-> [i \in 1..Len(v.l) |-> encode(v.l[i])]]
      [] v.t = "dict" ->
            [j |-> "object", members |-> [k \in DOMAIN v.d |-> encode(v.d[k])]]

RECURSIVE decode(_)
decode(x) ==
    CASE x.j = "null" -> None
      [] x.j = "true" -> bool(TRUE)
      [] x.j = "false" -> bool(FALSE)
      [] x.j = "string" -> str(x.chars)
      [] x.j = "integer" -> int(x.digits)
      [] x.j = "real" -> float(x.digits)
      [] x.j = "array" -> list([i \in 1..Len(x.items) |-> decode(x.items[i])])
      [] x.j = "object" -> dict([k \in DOMAIN x.members |-> decode(x.members[k])])

json_dumps(obj) ==
    IF serializable(obj) THEN Return(encode(obj)) ELSE Raise("TypeError", "optimizer.args")

json_loads(text) == decode(text)

----------------------------------------------------------------------------
(* The persisted record HeteroMFParam.  A field keeps the bare value of    *)
(* its declared type; a value of another type is refused on assignment.    *)

NoPb == [none |-> TRUE]

\* whether a field of the given declared type takes the Python value
pb_accepts(field_type, v) ==
    CASE field_type = "bool" -> v.t = "bool"
      [] field_type = "int" -> v.t = "int"
      [] field_type = "string" -> v.t = "str"
      [] field_type = "double" -> v.t \in {"int", "float"}

\* the bare value a field of the given declared type stores for v
pb_store(field_type, v) ==
    CASE field_type = "bool" -> v.b
      [] field_type = "int" -> v.i
      [] field_type = "string" -> v.s
      [] field_type = "double" -> Num(v)

\* reading a field gives back a Python value of the field's type
pb_load(field_type, x) ==
    CASE field_type = "bool" -> bool(x)
      [] field_type = "int" -> int(x)
      [] field_type = "string" -> str(x)
      [] field_type = "double" -> float(x)

hasattr(v, name) == v.t = "SimpleNamespace" /\ name \in DOMAIN v.ns

iterable(v) == v.t \in {"list", "tuple"}

generate_pb_unguarded(o) ==
    Outcome(o, Return([secure_aggregate |-> pb_store("bool", o.secure_aggregate),
            aggregate_every_n_epoch |-> pb_store("int", o.aggregate_every_n_epoch),
            batch_size |-> IF o.batch_size.t = "int" THEN o.batch_size.i ELSE 0,
            max_iter |-> IF o.max_iter.t = "int" THEN o.max_iter.i ELSE 0,
            early_stop |-> [early_stop |-> IF o.early_stop.t = "str" THEN o.early_stop.s ELSE "",
                            eps |-> Num(default_eps)],
            metrics |-> <<>>,
            optimizer |-> [optimizer |-> IF o.optimizer.t = "str" THEN o.optimizer.s ELSE "",
                           args |-> encode(EmptyDict)],
            loss |-> pb_store("string", o.loss),
            embed_dim |-> pb_store("int", o.init_param.embed_dim)]))

\* lines 258-273: the record built, or the exception an assignment or an
\* attribute access raises.  metrics of a HeteroMatrixParam is None, or the
\* list that check() or restore_from_pb() stored.
HeteroMFParam(o) ==
    IF ~ pb_accepts("bool", o.secure_aggregate)
    THEN Raise("TypeError", "secure_aggregate")
    ELSE IF ~ pb_accepts("int", o.aggregate_every_n_epoch)
    THEN Raise("TypeError", "aggregate_every_n_epoch")
    ELSE IF ~ pb_accepts("int", o.batch_size)
    THEN Raise("TypeError", "batch_size")
    ELSE IF ~ pb_accepts("int", o.max_iter)
    THEN Raise("TypeError", "max_iter")
    ELSE IF ~ hasattr(o.early_stop, "converge_func")
    THEN Raise("AttributeError", "early_stop.converge_func")
    ELSE IF ~ pb_accepts("string", o.early_stop.ns.converge_func)
    THEN Raise("TypeError", "early_stop.converge_func")
    ELSE IF ~ hasattr(o.early_stop, "eps")
    THEN Raise("AttributeError", "early_stop.eps")
    ELSE IF ~ pb_accepts("double", o.early_stop.ns.eps)
    THEN Raise("TypeError", "early_stop.eps")
    ELSE IF ~ iterable(o.metrics)
    THEN Raise("TypeError", "metrics")
    ELSE IF \E i \in 1..Len(o.metrics.l) : ~ pb_accepts("string", o.metrics.l[i])
    THEN Raise("TypeError", "metrics")
    ELSE IF ~ hasattr(o.optimizer, "optimizer")
    THEN Raise("AttributeError", "optimizer.optimizer")
    ELSE IF ~ pb_accepts("string", o.optimizer.ns.optimizer)
    THEN Raise("TypeError", "optimizer.optimizer")
    ELSE IF ~ hasattr(o.optimizer, "kwargs")
    THEN Raise("AttributeError", "optimizer.kwargs")
    ELSE IF ~ json_dumps(o.optimizer.ns.kwargs).ok
    THEN json_dumps(o.optimizer.ns.kwargs)
    ELSE IF ~ pb_accepts("string", o.loss)
    THEN Raise("TypeError", "loss")
    ELSE IF ~ pb_accepts("int", o.init_param.embed_dim)
    THEN Raise("TypeError", "embed_dim")
    ELSE Return([secure_aggregate |-> pb_store("bool", o.secure_aggregate),
                 aggregate_every_n_epoch |-> pb_store("int", o.aggregate_every_n_epoch),
                 batch_size |-> pb_store("int", o.batch_size),
                 max_iter |-> pb_store("int", o.max_iter),
                 early_stop |-> [early_stop |-> pb_store("string", o.early_stop.ns.converge_func),
                                 eps |-> pb_store("double", o.early_stop.ns.eps)],
                 metrics |-> [i \in 1..Len(o.metrics.l) |-> pb_store("string", o.metrics.l[i])],
                 optimizer |-> [optimizer |-> pb_store("string", o.optimizer.ns.optimizer),
                                args |-> json_dumps(o.optimizer.ns.kwargs).val],
                 loss |-> pb_store("string", o.loss),
                 embed_dim |-> pb_store("int", o.init_param.embed_dim)])

\* generate_pb() assigns to the record only, never to the object
generate_pb(o) == Outcome(o, HeteroMFParam(o))

\* dict(optimizer=name, **loaded)
dict_with_optimizer(name, loaded) ==
    dict([k \in DOMAIN loaded.d \cup {"optimizer"} |->
            IF k = "optimizer" THEN name ELSE loaded.d[k]])

restore_from_pb(o, p) ==
    LET o1 == [o EXCEPT !.secure_aggregate = pb_load("bool", p.secure_aggregate),
                        !.aggregate_every_n_epoch = pb_load("int", p.aggregate_every_n_epoch),
                        !.batch_size = pb_load("int", p.batch_size),
                        !.max_iter = pb_load("int", p.max_iter)]
        r1 == _parse_early_stop(dict([early_stop |-> pb_load("string", p.early_stop.early_stop),
                                      eps |-> pb_load("double", p.early_stop.eps)]))
        o2 == [o1 EXCEPT !.early_stop = r1.val,
                         !.metrics = list([i \in 1..Len(p.metrics) |-> pb_load("string", p.metrics[i])])]
        loaded == json_loads(p.optimizer.args)
        r2 == _parse_optimizer(dict_with_optimizer(pb_load("string", p.optimizer.optimizer), loaded))
        o3 == [o2 EXCEPT !.optimizer = r2.val,
                         !.loss = pb_load("string", p.loss),
                         !.init_param = MtxFInitParam(pb_load("int", p.embed_dim), "random_normal")]
    IN  IF ~ r1.ok THEN Outcome(o1, r1)
        ELSE IF loaded.t # "dict" \/ "optimizer" \in DOMAIN loaded.d
        THEN Outcome(o2, Raise("TypeError", "optimizer"))
        ELSE IF ~ r2.ok THEN Outcome(o2, r2)
        ELSE Outcome(o3, Return(None))

----------------------------------------------------------------------------
(* Inputs *)

IterBound == 2
BatchBound == 1
EmbedBound == 2
MetricsBound == 2
ArgsBound == 2

\* every dict with keys among `keys` and values among `vals`
Dicts(keys, vals) == UNION {[ks -> vals] : ks \in SUBSET keys}

KwargValues == {int(-1), int(0), float(500), str("x")}

EarlyStopInputs ==
    {str("diff"), str(""), None,
     dict([early_stop |-> str("abs"), eps |-> float(100)]),
     dict([early_stop |-> str("abs")]),
     dict([eps |-> float(100)]),
     dict([early_stop |-> str("")]),
     SimpleNamespace([converge_func |-> str("diff"), eps |-> float(100)])}

OptimizerInputs ==
    {str("SGD"), None, EmptyDict, dict([optimizer |-> str("")]),
     dict([learning_rate |-> float(500)]),
     dict([optimizer |-> str("Adam"), betas |-> tuple(<<float(9000), float(9990)>>)]),
     SimpleNamespace([optimizer |-> str("SGD"), kwargs |-> EmptyDict])}
    \cup {dict(("optimizer" :> str("Adam")) @@ d) :
            d \in Dicts({"decay", "learning_rate"}, KwargValues)}

MetricsInputs ==
    {None, str("auc"), list(<<str("auc"), str("mse")>>), int(7)}

BatchSizeInputs ==
    {int(i) : i \in (-2 .. -1) \cup ((MIN_BATCH_SIZE - 1) .. (MIN_BATCH_SIZE + BatchBound))}
    \cup {float(160000), float(-10000)}

MaxIterInputs == {int(i) : i \in -1 .. IterBound} \cup {float(10000)}

InitParamInputs ==
    {MtxFInitParam(int(d), m) : d \in {10} \cup (1 .. EmbedBound), m \in {"random_normal", "gaussian"}}

AggregateItersInputs == {int(1), str("1")}

\* the defaults of MatrixFactorizationParam.__init__ (lines 72-85)
MatrixFactorizationParam_defaults ==
    [early_stop |-> str("diff"), optimizer |-> str("SGD"), batch_size |-> int(-1),
     init_param |-> MtxFInitParam(int(10), "random_normal"), max_iter |-> int(100),
     metrics |-> None]

\* the defaults of HeteroMatrixParam.__init__ (lines 222-229)
HeteroMatrixParam_defaults ==
    [optimizer |-> str("sgd"), batch_size |-> int(-1),
     init_param |-> MtxFInitParam(int(10), "random_normal"), max_iter |-> int(100),
     early_stop |-> str("diff"), aggregate_iters |-> int(1)]

\* the keyword arguments a call passes with a value other than the default
Given(kw, defaults) == {k \in DOMAIN kw : kw[k] # defaults[k]}

MatrixFactorizationParam_calls ==
    {kw \in [early_stop : EarlyStopInputs, optimizer : OptimizerInputs,
             batch_size : BatchSizeInputs \cup {int(-1)}, init_param : InitParamInputs,
             max_iter : MaxIterInputs \cup {int(100)}, metrics : MetricsInputs] :
        Cardinality(Given(kw, MatrixFactorizationParam_defaults)) <= ArgsBound}

HeteroMatrixParam_calls ==
    {kw \in [optimizer : OptimizerInputs \cup {str("sgd")},
             batch_size : BatchSizeInputs \cup {int(-1)}, init_param : InitParamInputs,
             max_iter : MaxIterInputs \cup {int(100)}, early_stop : EarlyStopInputs,
             aggregate_iters : AggregateItersInputs] :
        Cardinality(Given(kw, HeteroMatrixParam_defaults)) <= ArgsBound}

\* sequences over S of length at most n
RECURSIVE SeqsUpTo(_, _)
SeqsUpTo(S, n) ==
    IF n = 0 THEN {<<>>}
    ELSE SeqsUpTo(S, n - 1) \cup {Append(q, x) : q \in {q \in SeqsUpTo(S, n - 1) : Len(q) = n - 1}, x \in S}

ParseValues == {None, str(""), str("abs"), int(0), float(100)}

ParseInputs ==
    EarlyStopInputs \cup OptimizerInputs \cup MetricsInputs \cup ParseValues
    \cup {dict(d) : d \in Dicts({"early_stop", "eps"}, ParseValues)}
    \cup {dict(d) : d \in Dicts({"optimizer", "decay", "learning_rate"},
                                 {str(""), str("Adam"), float(500), int(-1)})}
    \cup {list(q) : q \in SeqsUpTo({str("auc"), str("mse")}, MetricsBound)}
    \cup {tuple(<<>>), tuple(<<str("auc")>>)}

\* the objects whose records are generated and restored
RoundTripInputs ==
    {HeteroMatrixParam(opt, b, MtxFInitParam(int(d), "random_normal"), it, es, int(1)) :
        opt \in {str("sgd"), str(""),
                 dict([optimizer |-> str("Adam"), learning_rate |-> float(500)]),
                 dict([optimizer |-> str("Adam"), decay |-> int(-1)]),
                 dict([optimizer |-> str("Adam"), betas |-> tuple(<<float(9000), float(9990)>>)]),
                 SimpleNamespace([optimizer |-> str("SGD"), kwargs |-> EmptyDict])},
        b \in {int(-1), int(MIN_BATCH_SIZE)},
        d \in 1 .. EmbedBound,
        it \in {int(0), int(1)},
        es \in {str("diff"), str(""),
                dict([early_stop |-> str("abs"), eps |-> float(100)]),
                dict([early_stop |-> str("abs"), eps |-> int(1)]),
                dict([early_stop |-> str("weight_diff")]),
                SimpleNamespace([converge_func |-> str("diff"), eps |-> float(100)])}}

HeteroInputs ==
    {HeteroMatrixParam(kw.optimizer, kw.batch_size, kw.init_param, kw.max_iter,
                       kw.early_stop, kw.aggregate_iters) :
        kw \in HeteroMatrixParam_calls}

CheckInputs ==
    {MatrixFactorizationParam(kw.early_stop, kw.optimizer, kw.batch_size,
                              kw.init_param, kw.max_iter, kw.metrics) :
        kw \in MatrixFactorizationParam_calls}
    \cup HeteroInputs

----------------------------------------------------------------------------
(* Calls *)

NoSrc == [none |-> TRUE]
NoCall == [fn |-> "", res |-> Return(None)]

Call(op, res) == [op |-> op, res |-> res, prior |-> [op |-> ret.op, ok |-> ret.res.ok]]

Constructed ==
    /\ prev = self
    /\ passed = FALSE
    /\ pb = NoPb
    /\ src = NoSrc
    /\ ret = [op |-> "__init__", res |-> Return(None), prior |-> [op |-> "", ok |-> TRUE]]
    /\ arg = None
    /\ out = NoCall

Check ==
    LET c == check(self)
    IN  /\ self' = c.obj
        /\ prev' = self
        /\ passed' = (passed \/ c.ret.ok)
        /\ ret' = Call("check", c.ret)
        /\ UNCHANGED <<pb, src, arg, out>>

InitCheck == self \in CheckInputs /\ Constructed
NextCheck == Check
SpecCheck == InitCheck /\ [][NextCheck]_vars

GeneratePb ==
    LET c == generate_pb(self)
    IN  /\ self.cls = "HeteroMatrixParam"
        /\ self' = c.obj
        /\ prev' = self
        /\ ret' = Call("generate_pb", c.ret)
        /\ pb' = IF c.ret.ok THEN c.ret.val ELSE pb
        /\ src' = IF c.ret.ok THEN [obj |-> self, passed |-> passed] ELSE src
        /\ UNCHANGED <<passed, arg, out>>

RestoreFromPb ==
    LET c == restore_from_pb(self, pb)
    IN  /\ self.cls = "HeteroMatrixParam"
        /\ pb # NoPb
        /\ self' = c.obj
        /\ prev' = self
        /\ passed' = FALSE
        /\ ret' = Call("restore_from_pb", c.ret)
        /\ UNCHANGED <<pb, src, arg, out>>

\* q = HeteroMatrixParam(): a second object, built with the defaults, takes
\* the place of the first; the record in flight is kept
Construct ==
    /\ self' = HeteroMatrixParam(HeteroMatrixParam_defaults.optimizer,
                                 HeteroMatrixParam_defaults.batch_size,
                                 HeteroMatrixParam_defaults.init_param,
                                 HeteroMatrixParam_defaults.max_iter,
                                 HeteroMatrixParam_defaults.early_stop,
                                 HeteroMatrixParam_defaults.aggregate_iters)
    /\ prev' = self'
    /\ passed' = FALSE
    /\ ret' = Call("__init__", Return(None))
    /\ UNCHANGED <<pb, src, arg, out>>

Init == self \in RoundTripInputs /\ Constructed
Next == Check \/ GeneratePb \/ RestoreFromPb \/ Construct
Spec == Init /\ [][Next]_vars

(* A normalizer called on its own *)

ParseEarlyStop ==
    /\ out' = [fn |-> "_parse_early_stop", res |-> _parse_early_stop(arg)]
    /\ UNCHANGED <<self, prev, passed, pb, src, ret, arg>>

ParseOptimizer ==
    /\ out' = [fn |-> "_parse_optimizer", res |-> _parse_optimizer(arg)]
    /\ UNCHANGED <<self, prev, passed, pb, src, ret, arg>>

ParseMetrics ==
    /\ out' = [fn |-> "_parse_metrics", res |-> _parse_metrics(arg)]
    /\ UNCHANGED <<self, prev, passed, pb, src, ret, arg>>

InitParse ==
    /\ self = MatrixFactorizationParam(MatrixFactorizationParam_defaults.early_stop,
                                       MatrixFactorizationParam_defaults.optimizer,
                                       MatrixFactorizationParam_defaults.batch_size,
                                       MatrixFactorizationParam_defaults.init_param,
                                       MatrixFactorizationParam_defaults.max_iter,
                                       MatrixFactorizationParam_defaults.metrics)
    /\ prev = self
    /\ passed = FALSE
    /\ pb = NoPb
    /\ src = NoSrc
    /\ ret = [op |-> "__init__", res |-> Return(None), prior |-> [op |-> "", ok |-> TRUE]]
    /\ arg \in ParseInputs
    /\ out = NoCall
NextParse == ParseEarlyStop \/ ParseOptimizer \/ ParseMetrics
SpecParse == InitParse /\ [][NextParse]_vars

----------------------------------------------------------------------------
(* Properties *)

IsCanonicalEarlyStop(v) ==
    v.t = "SimpleNamespace" /\ DOMAIN v.ns = {"converge_func", "eps"}

IsCanonicalOptimizer(v) ==
    v.t = "SimpleNamespace" /\ DOMAIN v.ns = {"optimizer", "kwargs"} /\ v.ns.kwargs.t = "dict"

IsCanonical(o) ==
    IsCanonicalEarlyStop(o.early_stop) /\ IsCanonicalOptimizer(o.optimizer) /\ o.metrics.t = "list"

\* the last call was check(), made on a freshly constructed object
FirstCheck == ret.op = "check" /\ ret.prior.op = "__init__"

HasMethod(v) == "early_stop" \in DOMAIN v.d /\ ~ Not(v.d["early_stop"])
HasName(v) == "optimizer" \in DOMAIN v.d /\ ~ Not(v.d["optimizer"])

ValidEarlyStop(v) == v.t = "str" \/ (v.t = "dict" /\ HasMethod(v))
ValidOptimizerShape(v) == v.t = "str" \/ (v.t = "dict" /\ HasName(v))
ValidKwarg(v, key) ==
    v.t = "dict" /\ key \in DOMAIN v.d =>
        v.d[key].t \in {"int", "float"} /\ Num(v.d[key]) >= 0
ValidMetrics(v) == v.t \in {"NoneType", "str", "list"}
ValidBatchSize(v) == PyEq(v, int(-1)) \/ (v.t = "int" /\ v.i >= MIN_BATCH_SIZE)
ValidInitParam(v) == v.init_method \in InitMethods
ValidMaxIter(v) == v.t = "int" /\ v.i >= 1
ValidAggregateIters(o) == o.cls = "HeteroMatrixParam" => o.aggregate_iters.t = "int"

\* C1: a HeteroMatrixParam restored from the record of an object that passed
\* check() equals that object on every scalar field and every canonical
\* sub-shape.
C1_RoundTrip ==
    ret.op = "restore_from_pb" /\ src.passed =>
        /\ ret.res.ok
        /\ PyEq(self.secure_aggregate, src.obj.secure_aggregate)
        /\ PyEq(self.aggregate_every_n_epoch, src.obj.aggregate_every_n_epoch)
        /\ PyEq(self.batch_size, src.obj.batch_size)
        /\ PyEq(self.max_iter, src.obj.max_iter)
        /\ self.loss = src.obj.loss
        /\ PyEq(self.init_param.embed_dim, src.obj.init_param.embed_dim)
        /\ self.early_stop.ns.converge_func = src.obj.early_stop.ns.converge_func
        /\ PyEq(self.early_stop.ns.eps, src.obj.early_stop.ns.eps)
        /\ self.optimizer.ns.optimizer = src.obj.optimizer.ns.optimizer
        /\ self.optimizer.ns.kwargs = src.obj.optimizer.ns.kwargs
        /\ self.metrics = src.obj.metrics

\* C2: when a call to check() has returned True, the next call to check() on
\* the same object returns True too and leaves early_stop, optimizer and
\* metrics as the first call left them.
C2_CheckIdempotent ==
    ret.op = "check" /\ ret.prior.op = "check" /\ ret.prior.ok =>
        /\ ret.res.ok
        /\ self.early_stop = prev.early_stop
        /\ self.optimizer = prev.optimizer
        /\ self.metrics = prev.metrics

\* C3: a check() that got past the three normalizers, whether it returned
\* True or raised at a later test, leaves early_stop, optimizer and metrics
\* in canonical form, built from the string or mapping the caller supplied.
C3_NormalizedKept ==
    FirstCheck /\ (ret.res.ok \/ ret.res.at \notin {"early_stop", "optimizer", "metrics"}) =>
        /\ IsCanonical(self)
        /\ prev.early_stop.t = "str" => self.early_stop.ns.converge_func = prev.early_stop
        /\ prev.early_stop.t = "dict" =>
              self.early_stop.ns.converge_func = prev.early_stop.d["early_stop"]
        /\ prev.optimizer.t = "str" => self.optimizer.ns.optimizer = prev.optimizer
        /\ prev.optimizer.t = "dict" =>
              self.optimizer.ns.optimizer = prev.optimizer.d["optimizer"]
        /\ self.early_stop # prev.early_stop
        /\ self.optimizer # prev.optimizer

C3_Witness ==
    /\ FirstCheck
    /\ ~ ret.res.ok
    /\ ret.res.at = "max_iter"
    /\ prev.early_stop.t = "dict"
    /\ prev.optimizer.t = "str"
    /\ IsCanonical(self)

\* C4: with every other field valid, check() returns True when batch_size
\* is -1 or an int no smaller than MIN_BATCH_SIZE, and raises at the batch
\* size test for every other batch size.
C4_BatchSize ==
    /\ FirstCheck
    /\ ValidEarlyStop(prev.early_stop)
    /\ ValidOptimizerShape(prev.optimizer)
    /\ ValidKwarg(prev.optimizer, "decay")
    /\ ValidKwarg(prev.optimizer, "learning_rate")
    /\ ValidMetrics(prev.metrics)
    /\ ValidInitParam(prev.init_param)
    /\ ValidMaxIter(prev.max_iter)
    /\ ValidAggregateIters(prev)
    => /\ ret.res.ok <=> ValidBatchSize(prev.batch_size)
       /\ ~ ret.res.ok => ret.res.exc = "ValueError" /\ ret.res.at = "batch_size"

C4_Witness ==
    /\ FirstCheck
    /\ prev.batch_size = int(MIN_BATCH_SIZE - 1)
    /\ ~ ret.res.ok
    /\ ret.res.at = "batch_size"

\* C5: with every other field valid, check() raises when the optimizer
\* mapping has a decay or a learning_rate that is negative or no number, and
\* returns True when each of the two that is present is a number >= 0.
C5_DecayLearningRate ==
    /\ FirstCheck
    /\ ValidEarlyStop(prev.early_stop)
    /\ ValidOptimizerShape(prev.optimizer)
    /\ ValidMetrics(prev.metrics)
    /\ ValidBatchSize(prev.batch_size)
    /\ ValidInitParam(prev.init_param)
    /\ ValidMaxIter(prev.max_iter)
    /\ ValidAggregateIters(prev)
    => /\ ret.res.ok <=>
            ValidKwarg(prev.optimizer, "decay") /\ ValidKwarg(prev.optimizer, "learning_rate")
       /\ ~ ret.res.ok =>
            ret.res.exc = "ValueError" /\ ret.res.at \in {"decay", "learning_rate"}

C5_Witness ==
    /\ FirstCheck
    /\ prev.optimizer.t = "dict"
    /\ DOMAIN prev.optimizer.d = {"optimizer", "decay", "learning_rate"}
    /\ prev.optimizer.d["decay"] = int(0)
    /\ prev.optimizer.d["learning_rate"] = float(500)
    /\ ret.res.ok

\* C9: with every other field valid, check() returns True exactly when
\* max_iter is an int >= 1.
C9_MaxIter ==
    /\ FirstCheck
    /\ ValidEarlyStop(prev.early_stop)
    /\ ValidOptimizerShape(prev.optimizer)
    /\ ValidKwarg(prev.optimizer, "decay")
    /\ ValidKwarg(prev.optimizer, "learning_rate")
    /\ ValidMetrics(prev.metrics)
    /\ ValidBatchSize(prev.batch_size)
    /\ ValidInitParam(prev.init_param)
    /\ ValidAggregateIters(prev)
    => /\ ret.res.ok <=> ValidMaxIter(prev.max_iter)
       /\ ~ ret.res.ok => ret.res.exc = "ValueError" /\ ret.res.at = "max_iter"

C9_Witness ==
    /\ FirstCheck
    /\ prev.max_iter = int(0)
    /\ ~ ret.res.ok
    /\ ret.res.at = "max_iter"

\* the canonical early-stop and optimizer shapes
EarlyStopOf(method, eps) == SimpleNamespace([converge_func |-> method, eps |-> eps])
OptimizerOf(name, kwargs) == SimpleNamespace([optimizer |-> name, kwargs |-> dict(kwargs)])

Raised(res) == ~ res.ok /\ res.exc = "ValueError"

\* C6, as claimed: every string s gives (s, 0.0001); every mapping that has
\* the method key gives (that value, its eps or 0.0001); a mapping without
\* the method key, and a value that is neither, raise.
C6_EarlyStopAsClaimed ==
    out.fn = "_parse_early_stop" =>
        /\ arg.t = "str" => out.res = Return(EarlyStopOf(arg, float(1)))
        /\ arg.t = "dict" /\ "early_stop" \in DOMAIN arg.d =>
              out.res = Return(EarlyStopOf(arg.d["early_stop"],
                                           IF "eps" \in DOMAIN arg.d THEN arg.d["eps"] ELSE float(1)))
        /\ arg.t = "dict" /\ "early_stop" \notin DOMAIN arg.d => Raised(out.res)
        /\ arg.t \notin {"str", "dict"} => Raised(out.res)

\* C6, amended: every string s gives (s, 0.0001); every mapping whose method
\* key holds a non-empty value gives (that value, its eps or 0.0001); a
\* mapping whose method key is missing or holds an empty value (the empty
\* string, None, 0), and a value that is neither string nor mapping, raise.
C6_EarlyStop ==
    out.fn = "_parse_early_stop" =>
        /\ arg.t = "str" => out.res = Return(EarlyStopOf(arg, float(1)))
        /\ arg.t = "dict" /\ HasMethod(arg) =>
              out.res = Return(EarlyStopOf(arg.d["early_stop"],
                                           IF "eps" \in DOMAIN arg.d THEN arg.d["eps"] ELSE float(1)))
        /\ arg.t = "dict" /\ ~ HasMethod(arg) => Raised(out.res)
        /\ arg.t \notin {"str", "dict"} => Raised(out.res)

C6_Witness ==
    /\ out.fn = "_parse_early_stop"
    /\ arg = dict([early_stop |-> str(""), eps |-> float(100)])
    /\ Raised(out.res)

\* C7: a string gives (name = the string, no arguments); a mapping with an
\* optimizer name (a non-empty value under the key optimizer) gives that
\* name and exactly the other entries, values unchanged; a mapping without
\* a name, and a value that is neither string nor mapping, raise.
C7_Optimizer ==
    out.fn = "_parse_optimizer" =>
        /\ arg.t = "str" => out.res = Return(OptimizerOf(arg, <<>>))
        /\ arg.t = "dict" /\ HasName(arg) =>
              /\ out.res.ok
              /\ out.res.val.ns.optimizer = arg.d["optimizer"]
              /\ out.res.val.ns.kwargs.t = "dict"
              /\ DOMAIN out.res.val.ns.kwargs.d = DOMAIN arg.d \ {"optimizer"}
              /\ \A k \in DOMAIN arg.d \ {"optimizer"} : out.res.val.ns.kwargs.d[k] = arg.d[k]
        /\ arg.t = "dict" /\ ~ HasName(arg) => Raised(out.res)
        /\ arg.t \notin {"str", "dict"} => Raised(out.res)

C7_Witness ==
    /\ out.fn = "_parse_optimizer"
    /\ arg = dict([optimizer |-> str("Adam"), decay |-> int(-1), learning_rate |-> float(500)])
    /\ out.res = Return(OptimizerOf(str("Adam"), [decay |-> int(-1), learning_rate |-> float(500)]))

\* C8, as claimed: None gives the empty list, a string a one-element list,
\* a list itself; a value of any other type raises.
C8_MetricsAsClaimed ==
    out.fn = "_parse_metrics" =>
        /\ arg.t = "NoneType" => out.res = Return(list(<<>>))
        /\ arg.t = "str" => out.res = Return(list(<<arg>>))
        /\ arg.t = "list" => out.res = Return(arg)
        /\ arg.t \notin {"NoneType", "str", "list"} => Raised(out.res)

\* C8, amended: None and every other empty value (the empty string, the
\* empty list, 0, an empty mapping or tuple) give the empty list; a
\* non-empty string a one-element list; a non-empty list itself, in the same
\* order; a non-empty value of any other type raises.
C8_Metrics ==
    out.fn = "_parse_metrics" =>
        /\ Not(arg) => out.res = Return(list(<<>>))
        /\ ~ Not(arg) /\ arg.t = "str" => out.res = Return(list(<<arg>>))
        /\ ~ Not(arg) /\ arg.t = "list" => out.res = Return(arg)
        /\ ~ Not(arg) /\ arg.t \notin {"str", "list"} => Raised(out.res)

C8_Witness ==
    /\ out.fn = "_parse_metrics"
    /\ arg = int(0)
    /\ out.res = Return(list(<<>>))

\* C10: generate_pb() returns a record only when early_stop, optimizer and
\* metrics were already canonical; on a freshly constructed object it
\* raises; and it never changes a field of the object.
C10_GeneratePb ==
    ret.op = "generate_pb" =>
        /\ ret.res.ok => IsCanonical(prev)
        /\ ret.prior.op = "__init__" => ~ ret.res.ok
        /\ self = prev

C10_Witness ==
    /\ ret.op = "generate_pb"
    /\ ret.res.ok
    /\ ret.prior.op = "restore_from_pb"
    /\ pb.early_stop.early_stop = "abs"

====
